---- MODULE Spec2Model ----
(***************************************************************************)
(* Model of the `trigger` crate (src/src/lib.rs):                          *)
(*   - Signal, the tri-state transition enum (repr(i8));                   *)
(*   - State, the single-owner edge detector;                              *)
(*   - on_changed, the generic change detector;                            *)
(*   - AtomicState, the edge detector built on AtomicBool::swap;           *)
(*   - run_once!, the per-call-site exactly-once guard.                    *)
(***************************************************************************)
EXTENDS Integers, Sequences, FiniteSets, TLC

\* ------------------------------------------------------------------ bounds
MaxUpdates == 4        \* State::update calls in one behaviour
MaxCalls == 3          \* AtomicState::update calls in one behaviour
MaxOnChanged == 2      \* on_changed calls in one behaviour
MaxInvocations == 3    \* run_once! invocations in one behaviour
NumSites == 2          \* call sites of run_once! in the program
MaxOps == 3            \* operations started by the threads of one program

\* ------------------------------------------------------------------ Signal
Fell == -1
Level == 0
Raised == 1
Signal == {Fell, Level, Raised}

\* the values an i8 can hold
I8 == -128 .. 127

\* two's complement wrap of an integer to i8
wrap_i8(x) == ((x + 128) % 256) - 128

\* `b as i8`
bool_as_i8(b) == IF b THEN 1 ELSE 0

\* Signal::transmute(value): mem::transmute of an i8 to the enum.  A code
\* that is no discriminant of Signal is undefined behaviour: the set of
\* outcomes is then every bit pattern of the enum's i8 representation.
transmute(value) == IF value \in Signal THEN {value} ELSE I8

\* `self as i8`
Signal_as_i8(self) == self

\* a comparison that also accepts Level
raised_ge(self) == Signal_as_i8(self) >= 0

raised(self) == Signal_as_i8(self) > 0

fell(self) == Signal_as_i8(self) < 0

changed(self) == Signal_as_i8(self) # 0

\* ------------------------------------------------------------------- State
\* a constructor that drops its argument
State_from_ignored(state) == [state |-> FALSE]

\* struct State { state: bool }
State_from(state) == [state |-> state]

bool_from(s) == s.state

State_default == [state |-> FALSE]

\* the operands of the subtraction exchanged
signal_code_reversed(new, old) == wrap_i8(bool_as_i8(old) - bool_as_i8(new))

\* a sum in place of the difference
signal_code_add(new, old) == wrap_i8(bool_as_i8(new) + bool_as_i8(old))

\* `state as i8 - self.state as i8` (lines 110 and 156)
signal_code(new, old) == wrap_i8(bool_as_i8(new) - bool_as_i8(old))

\* an update that forgets `self.state = state`
State_update_nostore(self, state) ==
  LET signal == signal_code(state, self.state)
  IN  [self |-> self, signal |-> signal]

\* State::update up to the transmute: the code computed and the new self
State_update(self, state) ==
  LET signal == signal_code(state, self.state)
  IN  [self |-> [self EXCEPT !.state = state], signal |-> signal]

\* ------------------------------------------------------------- AtomicBool
\* a swap that hands back the value it has just written
swap_returns_new(cur, val) == [old |-> val, cell |-> val]

\* a load in place of the swap: nothing is written
swap_load(cur, val) == [old |-> cur, cell |-> cur]

\* AtomicBool::swap(val, SeqCst): one indivisible read-modify-write
swap(cur, val) == [old |-> cur, cell |-> val]

\* ------------------------------------------------------------- on_changed
\* T = (i32, f64), the type of the documented example `(1, 2.0)`.  An f64 is
\* kept by its bit pattern, so that 0.0 and -0.0 are different values that
\* compare equal and NaN is one value that compares unequal to itself.
Ints == {1, 2}
Floats == {"0.0", "-0.0", "2.0", "NaN"}
T == Ints \X Floats

\* f64 as PartialEq::ne (IEEE 754 comparison)
f64_ne(x, y) ==
  \/ x = "NaN"
  \/ y = "NaN"
  \/ (x # y /\ {x, y} # {"0.0", "-0.0"})

\* (i32, f64) as PartialEq::ne: some component is unequal
tuple_ne(a, b) == a[1] # b[1] \/ f64_ne(a[2], b[2])

\* the assignment `*state = value` left out
on_changed_nowrite(state, value) ==
  LET changed_ == tuple_ne(state, value)
  IN  [state |-> state, ret |-> changed_]

\* the comparison made after the assignment
on_changed_after_write(state, value) ==
  LET changed_ == tuple_ne(value, value)
  IN  [state |-> value, ret |-> changed_]

\* on_changed(state, value): the new contents of *state and the result
on_changed(state, value) ==
  LET changed_ == tuple_ne(state, value)
  IN  [state |-> value, ret |-> changed_]

\* --------------------------------------------------------------- run_once!
Sites == 1 .. NumSites
Invocations == 1 .. MaxInvocations

\* the test without its negation
run_once_unnegated(flag) ==
  LET r == swap(flag, TRUE)
  IN  [STATE_ |-> r.cell, prev |-> r.old, enter |-> r.old]

\* line 168: `!STATE.swap(true, Ordering::SeqCst)`, the flag after the swap
\* and whether the invocation enters the guarded statement
run_once(flag) ==
  LET r == swap(flag, TRUE)
  IN  [STATE_ |-> r.cell, prev |-> r.old, enter |-> ~r.old]

VARIABLES
  cell,      \* the caller's variable handed to on_changed as `state`
  clog,      \* one record per completed on_changed call, in call order
  STATE_,     \* the static flag of each run_once! call site
  ninv,      \* number of run_once! invocations started so far
  rpc,       \* position of each invocation
  rsite,     \* the call site it executes
  rprev,     \* the value its swap returned
  rorder,    \* per site, the invocations in the order of their swaps
  executed,  \* per site, how many times the guarded statement was started
  st,        \* the State value owned by the single caller
  sinit,     \* the boolean the State was constructed from
  slog,      \* one record per completed State::update call, in call order
  astate,    \* AtomicState.state
  ainit,     \* the boolean passed to AtomicState::new
  ncalls,    \* number of AtomicState::update calls invoked so far
  apc,       \* position of each AtomicState::update call
  aarg,      \* its argument
  aprior,    \* the value its swap returned
  acode,     \* the i8 it computed
  asig,      \* the Signal it returned
  abefore,   \* history: the calls that had returned when it was invoked
  aorder     \* the calls in the order of their swaps

vars == <<st, sinit, slog, astate, ainit, ncalls, apc, aarg, aprior, acode,
          asig, abefore, aorder, cell, clog, STATE_, ninv, rpc, rsite, rprev,
          rorder, executed>>

stateVars == <<st, sinit, slog>>
atomicVars == <<astate, ainit, ncalls, apc, aarg, aprior, acode, asig,
                abefore, aorder>>

changedVars == <<cell, clog>>
onceVars == <<STATE_, ninv, rpc, rsite, rprev, rorder, executed>>

Calls == 1 .. MaxCalls

\* State::from(a) (State::default() is State::from(false))
InitState ==
  /\ sinit \in BOOLEAN
  /\ st = State_from(sinit)
  /\ slog = << >>

\* AtomicState::new(init)
AtomicState_new(init) == [state |-> init]

\* #[derive(Default)] on AtomicState: AtomicBool::default() is false
AtomicState_default == [state |-> FALSE]

InitAtomic ==
  /\ ainit \in BOOLEAN
  /\ astate = AtomicState_new(ainit).state
  /\ ncalls = 0
  /\ apc = [c \in Calls |-> "idle"]
  /\ aarg = [c \in Calls |-> FALSE]
  /\ aprior = [c \in Calls |-> FALSE]
  /\ acode = [c \in Calls |-> 0]
  /\ asig = [c \in Calls |-> Level]
  /\ abefore = [c \in Calls |-> {}]
  /\ aorder = << >>

\* the caller's variable before the first on_changed call
InitOnChanged ==
  /\ cell \in T
  /\ clog = << >>

\* `static STATE: AtomicBool = AtomicBool::new(false)` at every call site
InitRunOnce ==
  /\ STATE_ = [s \in Sites |-> FALSE]
  /\ ninv = 0
  /\ rpc = [i \in Invocations |-> "idle"]
  /\ rsite = [i \in Invocations |-> 1]
  /\ rprev = [i \in Invocations |-> FALSE]
  /\ rorder = [s \in Sites |-> << >>]
  /\ executed = [s \in Sites |-> 0]

\* a program that uses the edge detectors only
Init == InitState /\ InitAtomic /\ cell = <<1, "2.0">> /\ clog = << >> /\ InitRunOnce

\* state.update(b) by the owner of the State
StateUpdate(b) ==
  /\ Len(slog) < MaxUpdates
  /\ LET r == State_update(st, b)
     IN  \E sg \in transmute(r.signal) :
           /\ st' = r.self
           /\ slog' = Append(slog, [pre |-> bool_from(st), arg |-> b,
                                    code |-> r.signal, sig |-> sg,
                                    post |-> bool_from(r.self)])
  /\ UNCHANGED <<sinit>>
  /\ UNCHANGED <<atomicVars, changedVars, onceVars>>

\* a thread enters AtomicState::update(b); calls are numbered as invoked.
\* The history variable abefore is left to the program the call is part of.
AtomicCall(b) ==
  /\ ncalls < MaxCalls
  /\ LET c == ncalls + 1
     IN  /\ ncalls' = c
         /\ apc' = [apc EXCEPT ![c] = "called"]
         /\ aarg' = [aarg EXCEPT ![c] = b]
  /\ UNCHANGED <<astate, ainit, aprior, acode, asig, aorder>>
  /\ UNCHANGED <<stateVars, changedVars, onceVars>>

\* a swap under a lock that a call holds until it returns
AtomicSwap_locked(c) ==
  /\ apc[c] = "called"
  /\ \A d \in Calls : apc[d] # "swapped"
  /\ LET r == swap(astate, aarg[c])
     IN  /\ astate' = r.cell
         /\ aprior' = [aprior EXCEPT ![c] = r.old]
         /\ acode' = [acode EXCEPT ![c] = signal_code(aarg[c], r.old)]
  /\ aorder' = Append(aorder, c)
  /\ apc' = [apc EXCEPT ![c] = "swapped"]
  /\ UNCHANGED <<ainit, ncalls, aarg, asig, abefore>>
  /\ UNCHANGED <<stateVars, changedVars, onceVars>>

\* line 156: the swap and the subtraction on its result
AtomicSwap(c) ==
  /\ apc[c] = "called"
  /\ LET r == swap(astate, aarg[c])
     IN  /\ astate' = r.cell
         /\ aprior' = [aprior EXCEPT ![c] = r.old]
         /\ acode' = [acode EXCEPT ![c] = signal_code(aarg[c], r.old)]
  /\ aorder' = Append(aorder, c)
  /\ apc' = [apc EXCEPT ![c] = "swapped"]
  /\ UNCHANGED <<ainit, ncalls, aarg, asig, abefore>>
  /\ UNCHANGED <<stateVars, changedVars, onceVars>>

\* line 157: the transmute and the return
AtomicReturn(c) ==
  /\ apc[c] = "swapped"
  /\ \E sg \in transmute(acode[c]) : asig' = [asig EXCEPT ![c] = sg]
  /\ apc' = [apc EXCEPT ![c] = "returned"]
  /\ UNCHANGED <<astate, ainit, ncalls, aarg, aprior, acode, abefore, aorder>>
  /\ UNCHANGED <<stateVars, changedVars, onceVars>>

\* a program that uses the two edge detectors; it keeps no history of which
\* calls had returned when a call was invoked
Next ==
  \/ \E b \in BOOLEAN : StateUpdate(b)
  \/ \E b \in BOOLEAN : AtomicCall(b) /\ UNCHANGED abefore
  \/ \E c \in Calls : AtomicSwap(c)
  \/ \E c \in Calls : AtomicReturn(c)

Spec == Init /\ [][Next]_vars

\* ---------------------------------------------------- AtomicState, program
\* the invocation of a call observed: the calls that have returned by now
\* are noted for the call being invoked
ObserveReturned ==
  abefore' = [abefore EXCEPT ![ncalls'] = {d \in Calls : apc[d] = "returned"}]

NextAtomic ==
  \/ \E b \in BOOLEAN : AtomicCall(b) /\ ObserveReturned
  \/ \E c \in Calls : AtomicSwap(c)
  \/ \E c \in Calls : AtomicReturn(c)

\* a program whose threads share one AtomicState and use nothing else
InitAtomicOnly ==
  /\ InitAtomic
  /\ InitRunOnce
  /\ cell = <<1, "2.0">> /\ clog = << >>
  /\ sinit = FALSE /\ st = State_default /\ slog = << >>

SpecAtomic == InitAtomicOnly /\ [][NextAtomic]_vars

\* ---------------------------------------------------- on_changed, program
\* on_changed(&mut cell, value)
OnChanged(value) ==
  /\ Len(clog) < MaxOnChanged
  /\ LET r == on_changed(cell, value)
     IN  /\ cell' = r.state
         /\ clog' = Append(clog, [old |-> cell, value |-> value,
                                  ret |-> r.ret, new |-> r.state])
  /\ UNCHANGED <<stateVars, atomicVars, onceVars>>

NextOnChanged == \E value \in T : OnChanged(value)

\* a program that uses on_changed only
InitChanged ==
  /\ InitOnChanged
  /\ InitRunOnce
  /\ sinit = FALSE /\ st = State_default /\ slog = << >>
  /\ ainit = FALSE /\ InitAtomic

SpecOnChanged == InitChanged /\ [][NextOnChanged]_vars

\* ------------------------------------------------------ run_once!, program
\* a thread reaches the run_once! of call site s; invocations are numbered
\* as they start
OnceInvoke(s) ==
  /\ ninv < MaxInvocations
  /\ LET i == ninv + 1
     IN  /\ ninv' = i
         /\ rpc' = [rpc EXCEPT ![i] = "invoked"]
         /\ rsite' = [rsite EXCEPT ![i] = s]
  /\ UNCHANGED <<STATE_, rprev, rorder, executed>>
  /\ UNCHANGED <<stateVars, atomicVars, changedVars>>

\* one flag shared by every call site, as a function in place of the macro
\* would have
OnceSwap_shared(i) ==
  /\ rpc[i] = "invoked"
  /\ LET s == rsite[i]
         r == run_once(STATE_[1])
     IN  /\ STATE_' = [STATE_ EXCEPT ![1] = r.STATE_]
         /\ rprev' = [rprev EXCEPT ![i] = r.prev]
         /\ rorder' = [rorder EXCEPT ![s] = Append(@, i)]
         /\ IF r.enter
              THEN /\ rpc' = [rpc EXCEPT ![i] = "stmt"]
                   /\ executed' = [executed EXCEPT ![s] = @ + 1]
              ELSE /\ rpc' = [rpc EXCEPT ![i] = "skipped"]
                   /\ UNCHANGED executed
  /\ UNCHANGED <<ninv, rsite>>
  /\ UNCHANGED <<stateVars, atomicVars, changedVars>>

\* line 168: the swap and the branch on its result
OnceSwap(i) ==
  /\ rpc[i] = "invoked"
  /\ LET s == rsite[i]
         r == run_once(STATE_[s])
     IN  /\ STATE_' = [STATE_ EXCEPT ![s] = r.STATE_]
         /\ rprev' = [rprev EXCEPT ![i] = r.prev]
         /\ rorder' = [rorder EXCEPT ![s] = Append(@, i)]
         /\ IF r.enter
              THEN /\ rpc' = [rpc EXCEPT ![i] = "stmt"]
                   /\ executed' = [executed EXCEPT ![s] = @ + 1]
              ELSE /\ rpc' = [rpc EXCEPT ![i] = "skipped"]
                   /\ UNCHANGED executed
  /\ UNCHANGED <<ninv, rsite>>
  /\ UNCHANGED <<stateVars, atomicVars, changedVars>>

\* line 169: the guarded statement runs to its end
OnceStmtDone(i) ==
  /\ rpc[i] = "stmt"
  /\ rpc' = [rpc EXCEPT ![i] = "ran"]
  /\ UNCHANGED <<STATE_, ninv, rsite, rprev, rorder, executed>>
  /\ UNCHANGED <<stateVars, atomicVars, changedVars>>

\* a panic that clears the flag, so that the statement is tried again
OnceStmtPanic_reset(i) ==
  /\ rpc[i] = "stmt"
  /\ rpc' = [rpc EXCEPT ![i] = "panicked"]
  /\ STATE_' = [STATE_ EXCEPT ![rsite[i]] = FALSE]
  /\ UNCHANGED <<ninv, rsite, rprev, rorder, executed>>
  /\ UNCHANGED <<stateVars, atomicVars, changedVars>>

\* line 169: the guarded statement panics and the invocation unwinds
OnceStmtPanic(i) ==
  /\ rpc[i] = "stmt"
  /\ rpc' = [rpc EXCEPT ![i] = "panicked"]
  /\ UNCHANGED <<STATE_, ninv, rsite, rprev, rorder, executed>>
  /\ UNCHANGED <<stateVars, atomicVars, changedVars>>

NextRunOnce ==
  \/ \E s \in Sites : OnceInvoke(s)
  \/ \E i \in Invocations : OnceSwap(i)
  \/ \E i \in Invocations : OnceStmtDone(i)
  \/ \E i \in Invocations : OnceStmtPanic(i)

\* a program that uses run_once! only
InitOnce ==
  /\ InitRunOnce
  /\ cell = <<1, "2.0">> /\ clog = << >>
  /\ sinit = FALSE /\ st = State_default /\ slog = << >>
  /\ ainit = FALSE /\ InitAtomic

SpecRunOnce == InitOnce /\ [][NextRunOnce]_vars

\* ================================================================ claims
\* the transition a detector holding prev makes when it is given new
Classify(new, prev) ==
  IF new = prev THEN Level ELSE IF new THEN Raised ELSE Fell

SArgs == [i \in 1 .. Len(slog) |-> slog[i].arg]
SSigs == [i \in 1 .. Len(slog) |-> slog[i].sig]

\* C1: a State constructed from a, on update(b), returns Raised iff a is
\* false and b true, Fell iff a is true and b false, Level iff a = b (and so
\* does every later update, with a the state stored before it); from
\* State::default() the calls update(false), update(true), update(true),
\* update(false) return Level, Raised, Level, Fell.
C1_UpdateClassifies ==
  /\ Len(slog) >= 1 =>
       /\ (slog[1].sig = Raised) <=> (sinit = FALSE /\ slog[1].arg = TRUE)
       /\ (slog[1].sig = Fell) <=> (sinit = TRUE /\ slog[1].arg = FALSE)
       /\ (slog[1].sig = Level) <=> (sinit = slog[1].arg)
  /\ \A i \in 1 .. Len(slog) :
       /\ (slog[i].sig = Raised) <=> (slog[i].pre = FALSE /\ slog[i].arg = TRUE)
       /\ (slog[i].sig = Fell) <=> (slog[i].pre = TRUE /\ slog[i].arg = FALSE)
       /\ (slog[i].sig = Level) <=> (slog[i].pre = slog[i].arg)
  /\ (sinit = FALSE /\ SArgs = <<FALSE, TRUE, TRUE, FALSE>>)
       => SSigs = <<Level, Raised, Level, Fell>>

C1_Witness ==
  /\ sinit = bool_from(State_default)
  /\ SArgs = <<FALSE, TRUE, TRUE, FALSE>>
  /\ SSigs = <<Level, Raised, Level, Fell>>

\* position of a call in the order of the swaps
APos(c) == CHOOSE k \in 1 .. Len(aorder) : aorder[k] = c

\* the value stored by the call just before position k of the swap order
APrevValue(k) == IF k = 1 THEN ainit ELSE aarg[aorder[k - 1]]

ASwapped == {c \in Calls : apc[c] \in {"swapped", "returned"}}

\* C2: AtomicState::update is linearizable.  The order of the swaps is a
\* total order of the calls that have taken effect: it holds each of them
\* once, a call that returned before another was invoked precedes it, and
\* every returned Signal is the classification of the call's own value
\* against the value stored by its predecessor in the order (the initial
\* value for the first).
C2_Linearizable ==
  /\ {aorder[k] : k \in 1 .. Len(aorder)} = ASwapped
  /\ Len(aorder) = Cardinality(ASwapped)
  /\ \A c \in ASwapped : \A d \in abefore[c] :
       d \in ASwapped /\ APos(d) < APos(c)
  /\ \A k \in 1 .. Len(aorder) :
       apc[aorder[k]] = "returned"
         => asig[aorder[k]] = Classify(aarg[aorder[k]], APrevValue(k))
  /\ Len(aorder) > 0 => astate = aarg[aorder[Len(aorder)]]

\* three calls overlapped, took effect in an order other than that of their
\* invocation, and returned an edge each
C2_Witness ==
  /\ \A c \in 1 .. 3 : apc[c] = "returned"
  /\ aorder[1] = 3 /\ aorder[2] = 1 /\ aorder[3] = 2
  /\ asig[3] = Raised /\ asig[1] = Fell /\ asig[2] = Raised

\* invocations that have reached call site s
RAtSite(s) == {i \in Invocations : rpc[i] # "idle" /\ rsite[i] = s}

\* invocations that are over
RCompleted(i) == rpc[i] \in {"skipped", "ran", "panicked"}

\* invocations that entered the guarded statement
REntered(s) == {i \in RAtSite(s) : rpc[i] \in {"stmt", "ran", "panicked"}}

\* C3: for N >= 1 invocations of run_once! at one call site, under every
\* interleaving, the guarded statement has been executed exactly once when
\* all the invocations have completed, and never more than once before.
C3_ExactlyOnce ==
  \A s \in Sites :
    /\ executed[s] = Cardinality(REntered(s))
    /\ executed[s] <= 1
    /\ (RAtSite(s) # {} /\ \A i \in RAtSite(s) : RCompleted(i))
         => executed[s] = 1

\* three invocations raced at one site, the last one to arrive won, and all
\* three are over
C3_Witness ==
  /\ RAtSite(1) = Invocations
  /\ \A i \in Invocations : RCompleted(i)
  /\ rorder[1][1] = 3
  /\ executed[1] = 1

\* C4: an invocation executes the guarded statement iff its own swap changed
\* the flag of its call site from false to true; that invocation is the one
\* whose swap is first in the order of the swaps at the site, and every
\* invocation whose swap comes later sees the flag true and skips.
C4_WinnerIsFirstSwap ==
  \A s \in Sites :
    /\ {rorder[s][k] : k \in 1 .. Len(rorder[s])}
         = {i \in RAtSite(s) : rpc[i] # "invoked"}
    /\ \A k \in 1 .. Len(rorder[s]) :
         LET i == rorder[s][k]
         IN  /\ (i \in REntered(s)) <=> (rprev[i] = FALSE)
             /\ (i \in REntered(s)) <=> (k = 1)
             /\ k > 1 => (rprev[i] = TRUE /\ rpc[i] = "skipped")
             /\ STATE_[s] = TRUE

\* at one site an invocation won, ran the statement to its end, and two
\* others, one of which had arrived before the winner, skipped it
C4_Witness ==
  /\ Len(rorder[2]) = 3
  /\ rorder[2][1] = 2
  /\ rpc[2] = "ran" /\ rpc[1] = "skipped" /\ rpc[3] = "skipped"

\* C5: after each State::update call the stored state is the argument of
\* that call, whatever came before it, and bool::from yields that value.
C5_StateIsLastWrite ==
  /\ \A i \in 1 .. Len(slog) : slog[i].post = slog[i].arg
  /\ \A i \in 1 .. Len(slog) - 1 : slog[i + 1].pre = slog[i].arg
  /\ Len(slog) > 0 => bool_from(st) = slog[Len(slog)].arg
  /\ Len(slog) = 0 => bool_from(st) = sinit

C5_Witness ==
  /\ sinit = TRUE
  /\ SArgs = <<TRUE, FALSE, FALSE, TRUE>>
  /\ bool_from(st) = TRUE

\* C6 as claimed: for every accepted T and every v, on_changed(&mut cell, v)
\* followed at once by on_changed(&mut cell, v) returns false the second
\* time and the cell holds v.
C6_RepeatReturnsFalse ==
  \A i \in 1 .. Len(clog) - 1 :
    clog[i + 1].value = clog[i].value
      => (clog[i + 1].ret = FALSE /\ cell = clog[i].value)

\* C6, amended: the second of two consecutive on_changed calls with the same
\* v returns false exactly when v is equal to itself under T's comparison
\* (it returns true when v is not, as a tuple holding NaN); in both cases the
\* cell holds v afterwards.
C6_RepeatReturnsFalseIfReflexive ==
  \A i \in 1 .. Len(clog) - 1 :
    clog[i + 1].value = clog[i].value
      => /\ clog[i + 1].ret = tuple_ne(clog[i].value, clog[i].value)
         /\ ~tuple_ne(clog[i].value, clog[i].value) => clog[i + 1].ret = FALSE
         /\ clog[i + 1].new = clog[i].value
         /\ Len(clog) = i + 1 => cell = clog[i].value

\* the documented example: (1, 2.0), then (2, 2.0) twice
C6_Witness ==
  /\ Len(clog) = 2
  /\ clog[1].old = <<1, "2.0">>
  /\ clog[1].value = <<2, "2.0">> /\ clog[1].ret = TRUE
  /\ clog[2].value = <<2, "2.0">> /\ clog[2].ret = FALSE
  /\ cell = <<2, "2.0">>

\* C7: on_changed always overwrites *state with value and returns true iff
\* the contents of *state before the call were unequal to value; it has a
\* result for every input.
C7_OnChangedContract ==
  /\ \A i \in 1 .. Len(clog) :
       /\ clog[i].new = clog[i].value
       /\ clog[i].ret = tuple_ne(clog[i].old, clog[i].value)
  /\ \A i \in 1 .. Len(clog) - 1 : clog[i + 1].old = clog[i].value
  /\ Len(clog) > 0 => cell = clog[Len(clog)].value
  /\ \A value \in T :
       /\ on_changed(cell, value).ret \in BOOLEAN
       /\ on_changed(cell, value).state \in T

\* a call that reported a change and a call that reported none although it
\* replaced the contents by a different representation of an equal value
C7_Witness ==
  /\ Len(clog) = 2
  /\ clog[1].ret = TRUE /\ clog[1].old = <<1, "NaN">> /\ clog[1].value = <<1, "0.0">>
  /\ clog[2].ret = FALSE /\ clog[2].value = <<1, "-0.0">>
  /\ cell = <<1, "-0.0">>

AReturned == {c \in Calls : apc[c] = "returned"}

\* C8: in every call of State::update and of AtomicState::update, under
\* every interleaving, the code handed to Signal::transmute is one of -1, 0,
\* +1 and the Signal produced is one of the three variants.
C8_TransmuteInRange ==
  /\ \A i \in 1 .. Len(slog) :
       slog[i].code \in {-1, 0, 1} /\ slog[i].sig \in Signal
  /\ \A c \in ASwapped : acode[c] \in {-1, 0, 1}
  /\ \A c \in AReturned : asig[c] \in Signal /\ asig[c] = acode[c]

\* every code has been handed to the transmute by both detectors
C8_Witness ==
  /\ {slog[i].code : i \in 1 .. Len(slog)} = {-1, 0, 1}
  /\ {acode[c] : c \in AReturned} = {-1, 0, 1}

\* C9: State::update(x) called twice in a row returns Level the second time
\* and leaves the stored state equal to x, whatever was stored before.
C9_UpdateIdempotent ==
  \A i \in 1 .. Len(slog) - 1 :
    slog[i + 1].arg = slog[i].arg
      => /\ slog[i + 1].sig = Level
         /\ slog[i + 1].post = slog[i].arg
         /\ Len(slog) = i + 1 => bool_from(st) = slog[i].arg

\* both values given twice in a row, the first call of each pair an edge
C9_Witness ==
  /\ sinit = FALSE
  /\ SArgs = <<TRUE, TRUE, FALSE, FALSE>>
  /\ SSigs = <<Raised, Level, Fell, Level>>

\* the Signals returned so far by either detector
ReturnedSignals ==
  {slog[i].sig : i \in 1 .. Len(slog)} \cup {asig[c] : c \in AReturned}

\* C10: for every Signal returned by an update call, changed() holds iff
\* raised() or fell() does, raised() holds exactly for Raised, fell()
\* exactly for Fell, and the two never hold together.
C10_SignalPredicates ==
  \A sg \in ReturnedSignals :
    /\ changed(sg) <=> (raised(sg) \/ fell(sg))
    /\ raised(sg) <=> (sg = Raised)
    /\ fell(sg) <=> (sg = Fell)
    /\ ~(raised(sg) /\ fell(sg))

\* each detector has returned each of the three Signals
C10_Witness ==
  /\ {slog[i].sig : i \in 1 .. Len(slog)} = Signal
  /\ {asig[c] : c \in AReturned} = Signal

\* the calls that have been invoked
AInvoked == {c \in Calls : apc[c] # "idle"}

\* C11: no lost updates in AtomicState.  Every call reads as its previous
\* value exactly the value written by the swap just before its own in the
\* atomic order (the initial value for the first swap), so a written value is
\* read as 'previous' by one later call at most; once all calls have
\* completed the stored value is the argument of the call that swapped last.
C11_NoLostUpdates ==
  /\ \A k \in 1 .. Len(aorder) :
       /\ aprior[aorder[k]] \in BOOLEAN
       /\ aprior[aorder[k]] = APrevValue(k)
  /\ \A k1, k2 \in 1 .. Len(aorder) : aorder[k1] = aorder[k2] => k1 = k2
  /\ (AInvoked # {} /\ AInvoked = AReturned)
       => astate = aarg[aorder[Len(aorder)]]

\* three overlapping calls, the first invoked swapping last: its argument is
\* what stays stored, and each call read what its predecessor wrote
C11_Witness ==
  /\ AReturned = 1 .. 3
  /\ aorder[1] = 2 /\ aorder[2] = 3 /\ aorder[3] = 1
  /\ ainit = FALSE /\ aarg[2] = TRUE /\ aarg[3] = FALSE /\ aarg[1] = TRUE
  /\ aprior[2] = FALSE /\ aprior[3] = TRUE /\ aprior[1] = FALSE
  /\ astate = TRUE

\* ------------------------------------------------- single caller, program
\* one caller owns a State and an AtomicState constructed from one boolean
InitSingleCaller ==
  /\ InitState
  /\ InitAtomic
  /\ ainit = sinit
  /\ InitRunOnce
  /\ cell = <<1, "2.0">> /\ clog = << >>

\* the caller is between two calls: every update it made has returned
CallerIdle == \A c \in Calls : apc[c] \in {"idle", "returned"}

\* the caller gives each boolean first to the State, then to the
\* AtomicState, and makes no call before the one before it has returned
NextSingleCaller ==
  \/ \E b \in BOOLEAN : CallerIdle /\ Len(slog) = ncalls /\ StateUpdate(b)
  \/ /\ CallerIdle
     /\ Len(slog) = ncalls + 1
     /\ AtomicCall(slog[Len(slog)].arg)
     /\ ObserveReturned
  \/ \E c \in Calls : AtomicSwap(c)
  \/ \E c \in Calls : AtomicReturn(c)

SpecSingleCaller == InitSingleCaller /\ [][NextSingleCaller]_vars

\* C12: for every initial boolean and every finite sequence of booleans
\* applied by a single caller with no concurrent access, AtomicState::update
\* and State::update return the same Signals and end in the same stored
\* boolean.
C12_AtomicRefinesState ==
  /\ \A c \in AInvoked : abefore[c] = 1 .. (c - 1)
  /\ \A c \in AInvoked : c <= Len(slog) /\ aarg[c] = slog[c].arg
  /\ \A c \in AReturned : asig[c] = slog[c].sig
  /\ (CallerIdle /\ Len(slog) = ncalls) => astate = bool_from(st)

\* three booleans given to both detectors, one call after the other, with a
\* rising and a falling edge among them
C12_Witness ==
  /\ AReturned = 1 .. 3
  /\ Len(slog) = 3
  /\ sinit = TRUE
  /\ <<asig[1], asig[2], asig[3]>> = <<Fell, Raised, Level>>
  /\ SSigs = <<Fell, Raised, Level>>
  /\ astate = TRUE /\ bool_from(st) = TRUE

\* ----------------------------------------------------- threads, program
\* threads that share one AtomicState and the run_once! call sites
InitThreads == InitAtomicOnly

\* the steps the threads take on their own inside an operation in progress
OwnStep ==
  \/ \E c \in Calls : AtomicSwap(c)
  \/ \E c \in Calls : AtomicReturn(c)
  \/ \E i \in Invocations : OnceSwap(i)

NextThreads ==
  \/ \E b \in BOOLEAN :
       ncalls + ninv < MaxOps /\ AtomicCall(b) /\ UNCHANGED abefore
  \/ \E s \in Sites : ncalls + ninv < MaxOps /\ OnceInvoke(s)
  \/ \E c \in Calls : AtomicSwap(c)
  \/ \E c \in Calls : AtomicReturn(c)
  \/ \E i \in Invocations : OnceSwap(i)
  \/ \E i \in Invocations : OnceStmtDone(i)
  \/ \E i \in Invocations : OnceStmtPanic(i)

\* a thread inside an operation is scheduled again; nothing is assumed of
\* the guarded statement, which may run for ever
SpecThreads ==
  InitThreads /\ [][NextThreads]_vars /\ WF_vars(OwnStep)

\* the invocation has decided: it skipped or it entered the statement
RDecided(i) == rpc[i] \in {"stmt", "skipped", "ran", "panicked"}

\* C13: every operation is non-blocking and always completes.  Whatever the
\* other threads do, the next step of an AtomicState::update call or of a
\* run_once! invocation in progress can be taken at once; a step never
\* repeats (an update is over after its swap and its return, an invocation
\* has decided after its swap); and every operation in progress completes.
C13_NonBlocking ==
  /\ [](\A c \in Calls :
          /\ apc[c] = "called" => ENABLED AtomicSwap(c)
          /\ apc[c] = "swapped" => ENABLED AtomicReturn(c))
  /\ [](\A i \in Invocations : rpc[i] = "invoked" => ENABLED OnceSwap(i))
  /\ [][\A c \in Calls :
          apc'[c] # apc[c] =>
            <<apc[c], apc'[c]>> \in {<<"idle", "called">>,
                                     <<"called", "swapped">>,
                                     <<"swapped", "returned">>}]_vars
  /\ [][\A i \in Invocations :
          rpc'[i] # rpc[i] =>
            <<rpc[i], rpc'[i]>> \in {<<"idle", "invoked">>,
                                     <<"invoked", "stmt">>,
                                     <<"invoked", "skipped">>,
                                     <<"stmt", "ran">>,
                                     <<"stmt", "panicked">>}]_vars
  /\ \A c \in Calls : (apc[c] = "called") ~> (apc[c] = "returned")
  /\ \A i \in Invocations : (rpc[i] = "invoked") ~> RDecided(i)

\* an invocation has skipped a statement that is still running, while an
\* update that got its turn between the two is past its swap
C13_Witness ==
  /\ rsite[1] = rsite[2] /\ rpc[1] = "stmt" /\ rpc[2] = "skipped"
  /\ apc[1] = "swapped"

\* invocations at site s that are past their swap
RSwapped(s) == {i \in RAtSite(s) : rpc[i] # "invoked"}

\* C14: each run_once! call site has its own flag.  The flag of a site is
\* set by the invocations at that site and by no other, a step of an
\* invocation changes the flag and the count of no other site, an invocation
\* skips only if an invocation at its own site entered the statement, and
\* with two sites each invoked and all invocations over, the statement of
\* each site has been executed exactly once.
C14_SitesIndependent ==
  /\ [](\A s \in Sites :
          /\ STATE_[s] <=> (RSwapped(s) # {})
          /\ executed[s] = (IF RSwapped(s) # {} THEN 1 ELSE 0)
          /\ \A i \in RAtSite(s) :
               rpc[i] = "skipped" => (REntered(s) # {} /\ REntered(s) # {i}))
  /\ [](\A s, t \in Sites :
          (/\ s # t
           /\ RAtSite(s) # {} /\ RAtSite(t) # {}
           /\ \A i \in RAtSite(s) \cup RAtSite(t) : RCompleted(i))
            => (executed[s] = 1 /\ executed[t] = 1))
  /\ [][\A i \in Invocations :
          rpc'[i] # rpc[i] =>
            \A t \in Sites \ {IF rpc[i] = "idle" THEN rsite'[i] ELSE rsite[i]} :
              /\ STATE_'[t] = STATE_[t]
              /\ executed'[t] = executed[t]
              /\ rorder'[t] = rorder[t]]_vars

\* site 1 was invoked twice and its flag was set before site 2 was invoked
\* once: the statement of site 2 ran all the same
C14_Witness ==
  /\ rsite[1] = 1 /\ rsite[2] = 1 /\ rsite[3] = 2
  /\ rpc[1] = "ran" /\ rpc[2] = "skipped" /\ rpc[3] = "ran"
  /\ executed = [s \in Sites |-> IF s \in {1, 2} THEN 1 ELSE 0]

\* C15: State::default() and a default AtomicState start in state false;
\* State::from(b) stores b and produces no Signal, and bool::from gives b
\* back; the stored state of a State changes through update only.
C15_ConstructionAndConversion ==
  /\ [](/\ bool_from(State_default) = FALSE
        /\ AtomicState_default.state = FALSE
        /\ AtomicState_default = AtomicState_new(FALSE)
        /\ State_default = State_from(FALSE)
        /\ \A b \in BOOLEAN : bool_from(State_from(b)) = b
        /\ Len(slog) = 0 => (st = State_from(sinit) /\ bool_from(st) = sinit)
        /\ ncalls = 0 => astate = ainit)
  /\ [][bool_from(st') # bool_from(st)
          => (/\ Len(slog') = Len(slog) + 1
              /\ bool_from(st') = slog'[Len(slog')].arg
              /\ slog'[Len(slog')].pre = bool_from(st))]_vars
  /\ [][sinit' = sinit /\ ainit' = ainit]_vars

\* a State constructed from true gave Level for update(true): the
\* construction counted as no transition, and the update of the AtomicState
\* next to it left the State alone
C15_Witness ==
  /\ sinit = TRUE
  /\ Len(slog) = 1 /\ slog[1].arg = TRUE /\ slog[1].sig = Level
  /\ bool_from(st) = TRUE
  /\ AReturned = {1} /\ asig[1] = Level

\* the calls that returned the Signal sg
AReturnedWith(sg) == {c \in AReturned : asig[c] = sg}

\* C16: edge conservation.  When all the concurrent AtomicState::update
\* calls have completed, the calls that returned Raised less the calls that
\* returned Fell number the final stored value less the initial one (as 0/1);
\* the two counts differ by one at most, and if every call passes true to a
\* detector that starts false, one call returns Raised and the others Level.
C16_EdgeConservation ==
  AInvoked = AReturned =>
    LET nRaised == Cardinality(AReturnedWith(Raised))
        nFell == Cardinality(AReturnedWith(Fell))
    IN  /\ nRaised - nFell = bool_as_i8(astate) - bool_as_i8(ainit)
        /\ nRaised - nFell \in {-1, 0, 1}
        /\ (ainit = FALSE /\ AReturned # {} /\ \A c \in AReturned : aarg[c] = TRUE)
             => (/\ nRaised = 1
                 /\ Cardinality(AReturnedWith(Level)) = Cardinality(AReturned) - 1)

\* three overlapping calls pass true to a detector that starts false: the
\* one invoked last swapped first and is the one that returned Raised
C16_Witness ==
  /\ ainit = FALSE
  /\ AReturned = 1 .. 3
  /\ \A c \in 1 .. 3 : aarg[c] = TRUE
  /\ aorder[1] = 3
  /\ asig[3] = Raised /\ asig[1] = Level /\ asig[2] = Level

IsEdge(sg) == sg # Level

\* the Signals other than Level that State::update has returned, in order
SEdges == SelectSeq(SSigs, IsEdge)

\* C17: edge alternation.  In any sequence of State::update calls the
\* Signals other than Level alternate between Raised and Fell; Raised is
\* returned only when the stored state was false and Fell only when it was
\* true, so from State::default() the first of them is Raised.
C17_EdgesAlternate ==
  /\ \A j \in 1 .. Len(SEdges) - 1 : SEdges[j] # SEdges[j + 1]
  /\ \A j \in 1 .. Len(SEdges) : SEdges[j] \in {Raised, Fell}
  /\ \A i \in 1 .. Len(slog) :
       /\ slog[i].sig = Raised => slog[i].pre = FALSE
       /\ slog[i].sig = Fell => slog[i].pre = TRUE
  /\ Len(SEdges) > 0 =>
       SEdges[1] = (IF sinit = bool_from(State_default) THEN Raised ELSE Fell)

\* from the default: a rise, a level, a fall and a rise again
C17_Witness ==
  /\ sinit = FALSE
  /\ SSigs = <<Raised, Level, Fell, Raised>>
  /\ SEdges = <<Raised, Fell, Raised>>

\* invocations at site s whose statement panicked
RPanicked(s) == {i \in RAtSite(s) : rpc[i] = "panicked"}

\* C18: the flag of a call site, once true, never becomes false again, and
\* it is true when the guarded statement starts; so a statement that started
\* and did not complete is not executed by any later invocation at the site,
\* it is never retried.
C18_FlagMonotone ==
  /\ [][\A s \in Sites : STATE_[s] => STATE_'[s]]_vars
  /\ [](\A s \in Sites : REntered(s) # {} => STATE_[s])
  /\ [](\A s \in Sites :
          RPanicked(s) # {} =>
            /\ executed[s] = 1
            /\ REntered(s) = RPanicked(s)
            /\ \A i \in RSwapped(s) \ RPanicked(s) : rpc[i] = "skipped")
  /\ [][\A s \in Sites :
          RPanicked(s) # {} =>
            (executed'[s] = executed[s] /\ REntered(s)' = REntered(s))]_vars

\* the first invocation panicked in the statement and the two that came
\* after it at the same site skipped it
C18_Witness ==
  /\ rorder[1] = <<1, 2, 3>>
  /\ rpc[1] = "panicked" /\ rpc[2] = "skipped" /\ rpc[3] = "skipped"
  /\ STATE_[1] = TRUE
  /\ executed[1] = 1

====
